---- MODULE Spec2Model ----
(***************************************************************************)
(* The install-time behaviour of setup.py of the hypergraph library.       *)
(*                                                                         *)
(* setup.py is one call, setup(name=..., packages=..., package_dir=...,    *)
(* python_requires=..., install_requires=...).  The keywords are consumed   *)
(* by the install tool (pip driving setuptools), whose documented          *)
(* treatment of each keyword is modelled here as the steps of one          *)
(* synchronous run: register the keywords, check the package directories   *)
(* (build_py.check_package), check Requires-Python (PEP 440), resolve the  *)
(* requirements (PEP 508 / PEP 503) and publish the editable mapping.      *)
(*                                                                         *)
(* Python strings are sequences of one-character strings, so splitting,    *)
(* joining, normalising and parsing are computed, not assumed.             *)
(***************************************************************************)
EXTENDS Integers, Sequences, FiniteSets, TLC

(***************************************************************************)
(* Bounds of the explored environments.                                    *)
(***************************************************************************)
MaxMajor == 4

MaxMinor == 10

MaxDepVersion == 1

(***************************************************************************)
(* String helpers (str.split, str.join, int(), str.lower).                 *)
(***************************************************************************)
Digits == <<"0","1","2","3","4","5","6","7","8","9">>

UpperCase == <<"A","B","C","D","E","F","G","H","I","J","K","L","M","N","O","P","Q","R","S","T","U","V","W","X","Y","Z">>

LowerCase == <<"a","b","c","d","e","f","g","h","i","j","k","l","m","n","o","p","q","r","s","t","u","v","w","x","y","z">>

(* Python passes arguments by value: an argument is evaluated once, before the call. *)
ByValue(F(_), x) == CHOOSE r \in {F(a) : a \in {x}} : TRUE

ByValue2(F(_, _), x, y) == CHOOSE r \in {F(a, b) : a \in {x}, b \in {y}} : TRUE

Range(s) == {s[i] : i \in 1..Len(s)}

IndexOf(s, c) ==
    IF \E i \in 1..Len(s) : s[i] = c
    THEN CHOOSE i \in 1..Len(s) : s[i] = c /\ \A j \in 1..(i-1) : s[j] # c
    ELSE 0

RECURSIVE Split(_, _)
Split(str, sep) ==
    ByValue2(LAMBDA s, i : IF i = 0 THEN <<s>>
                           ELSE <<SubSeq(s, 1, i-1)>> \o Split(SubSeq(s, i+1, Len(s)), sep),
             str, IndexOf(str, sep))

RECURSIVE Join(_, _)
Join(iterable, sep) ==
    ByValue(LAMBDA parts : IF Len(parts) = 0 THEN <<>>
                           ELSE IF Len(parts) = 1 THEN parts[1]
                           ELSE parts[1] \o <<sep>> \o Join(Tail(parts), sep),
            iterable)

DigitValue(c) == (CHOOSE d \in 1..10 : Digits[d] = c) - 1

RECURSIVE ParseInt(_)
ParseInt(str) ==
    ByValue(LAMBDA s : IF Len(s) = 0 THEN 0
                       ELSE 10 * ParseInt(SubSeq(s, 1, Len(s)-1)) + DigitValue(s[Len(s)]),
            str)

Lower(c) ==
    IF c \in Range(UpperCase)
    THEN LowerCase[CHOOSE i \in 1..26 : UpperCase[i] = c]
    ELSE c

(***************************************************************************)
(* posixpath.join and posixpath.normpath, which the install tool applies   *)
(* to the values of package_dir.                                           *)
(***************************************************************************)
PathJoin2(a, b) ==
    IF Len(b) > 0 /\ b[1] = "/" THEN b
    ELSE IF Len(a) = 0 \/ a[Len(a)] = "/" THEN a \o b
    ELSE a \o <<"/">> \o b

RECURSIVE PathJoinFrom(_, _)
PathJoinFrom(a, p) ==
    ByValue2(LAMBDA path, rest : IF Len(rest) = 0 THEN path
                                 ELSE PathJoinFrom(PathJoin2(path, rest[1]), Tail(rest)),
             a, p)

PathJoin(parts) ==
    ByValue(LAMBDA p : IF Len(p) = 0 THEN <<>> ELSE PathJoinFrom(p[1], Tail(p)), parts)

RECURSIVE NormComps(_, _, _)
NormComps(cs, new_comps, rooted) ==
    ByValue2(LAMBDA comps, new :
                 IF Len(comps) = 0 THEN new
                 ELSE LET comp == comps[1]
                          dotdot == <<".", ".">>
                      IN  IF comp = <<>> \/ comp = <<".">>
                          THEN NormComps(Tail(comps), new, rooted)
                          ELSE IF comp # dotdot
                                  \/ (~rooted /\ Len(new) = 0)
                                  \/ (Len(new) > 0 /\ new[Len(new)] = dotdot)
                          THEN NormComps(Tail(comps), Append(new, comp), rooted)
                          ELSE IF Len(new) > 0
                          THEN NormComps(Tail(comps), SubSeq(new, 1, Len(new)-1), rooted)
                          ELSE NormComps(Tail(comps), new, rooted),
             cs, new_comps)

normpath(p) ==
    ByValue(LAMBDA path :
                IF Len(path) = 0 THEN <<".">>
                ELSE ByValue(LAMBDA joined :
                                 LET result == IF path[1] = "/" THEN <<"/">> \o joined ELSE joined
                                 IN  IF Len(result) = 0 THEN <<".">> ELSE result,
                             Join(NormComps(Split(path, "/"), <<>>, path[1] = "/"), "/")),
            p)

(***************************************************************************)
(* The keywords of the setup() call.                                       *)
(***************************************************************************)
name == <<"h","y","p","e","r","g","r","a","p","h">>

version == <<"0",".","1",".","0">>

(* Variant: the intermediate namespace hypergraph.api is not declared. *)
packages_no_api ==
    << <<"h","y","p","e","r","g","r","a","p","h">>,
       <<"h","y","p","e","r","g","r","a","p","h",".","a","p","i",".","l","i","b">> >>

packages ==
    << <<"h","y","p","e","r","g","r","a","p","h">>,
       <<"h","y","p","e","r","g","r","a","p","h",".","a","p","i">>,
       <<"h","y","p","e","r","g","r","a","p","h",".","a","p","i",".","l","i","b">> >>

(* Variant: hypergraph.api.lib has no entry of its own. *)
package_dir_no_lib ==
    (<<"h","y","p","e","r","g","r","a","p","h">> :> <<".">>)
    @@ (<<"h","y","p","e","r","g","r","a","p","h",".","a","p","i">> :> <<"a","p","i">>)

(* Variant: hypergraph.api.lib is mapped to lib under the root. *)
package_dir_lib_at_root ==
    (<<"h","y","p","e","r","g","r","a","p","h">> :> <<".">>)
    @@ (<<"h","y","p","e","r","g","r","a","p","h",".","a","p","i">> :> <<"a","p","i">>)
    @@ (<<"h","y","p","e","r","g","r","a","p","h",".","a","p","i",".","l","i","b">>
            :> <<"l","i","b">>)

package_dir ==
    (<<"h","y","p","e","r","g","r","a","p","h">> :> <<".">>)
    @@ (<<"h","y","p","e","r","g","r","a","p","h",".","a","p","i">> :> <<"a","p","i">>)
    @@ (<<"h","y","p","e","r","g","r","a","p","h",".","a","p","i",".","l","i","b">>
            :> <<"a","p","i","/","l","i","b">>)

python_requires == <<">","=","3",".","7">>

(* Variant: pydantic is pinned to 2 or later. *)
install_requires_pinned ==
    << <<"p","y","t","h","o","n","n","e","t">>,
       <<"p","y","t","h","o","n","-","d","o","t","e","n","v">>,
       <<"p","y","d","a","n","t","i","c",">","=","2">> >>

install_requires ==
    << <<"p","y","t","h","o","n","n","e","t">>,
       <<"p","y","t","h","o","n","-","d","o","t","e","n","v">>,
       <<"p","y","d","a","n","t","i","c">> >>

SetupKeywords ==
    [name |-> name, version |-> version, packages |-> packages,
     package_dir |-> package_dir, python_requires |-> python_requires,
     install_requires |-> install_requires]

(***************************************************************************)
(* How the install tool reads package_dir: build_py.get_package_dir takes  *)
(* the longest declared prefix of the dotted name and appends the          *)
(* remaining components; check_package requires the directory to exist.    *)
(***************************************************************************)
RECURSIVE PackageDirWalk(_, _, _)
PackageDirWalk(p, t, pd) ==
    ByValue2(LAMBDA path, tail :
                 IF Len(path) = 0
                 THEN (IF <<>> \in DOMAIN pd THEN PathJoin(<<pd[<<>>]>> \o tail)
                       ELSE PathJoin(tail))
                 ELSE IF Join(path, ".") \in DOMAIN pd
                 THEN PathJoin(<<pd[Join(path, ".")]>> \o tail)
                 ELSE PackageDirWalk(SubSeq(path, 1, Len(path)-1),
                                     <<path[Len(path)]>> \o tail, pd),
             p, t)

get_package_dir(package, pd) == PackageDirWalk(Split(package, "."), <<>>, pd)

(* Variant: the directory of a package is not looked for. *)
check_package_unchecked(package, pd, existing) == TRUE

check_package(package, pd, existing) ==
    ByValue(LAMBDA dir : dir = <<>> \/ normpath(dir) \in existing, get_package_dir(package, pd))

(***************************************************************************)
(* PEP 440: versions and version specifiers, as python_requires and the    *)
(* entries of install_requires are read.                                   *)
(***************************************************************************)
OperatorChars == {"<", ">", "=", "!", "~"}

RECURSIVE PrefixLen(_, _)
PrefixLen(str, chars) ==
    ByValue(LAMBDA s : IF Len(s) = 0 \/ s[1] \notin chars THEN 0
                       ELSE 1 + PrefixLen(Tail(s), chars),
            str)

RECURSIVE Strip(_)
Strip(str) ==
    ByValue(LAMBDA s : IF Len(s) > 0 /\ s[1] = " " THEN Strip(Tail(s))
                       ELSE IF Len(s) > 0 /\ s[Len(s)] = " " THEN Strip(SubSeq(s, 1, Len(s)-1))
                       ELSE s,
            str)

ParseVersion(s) ==
    ByValue(LAMBDA parts : [i \in 1..Len(parts) |-> ParseInt(parts[i])], Split(s, "."))

Release(v, i) == IF i <= Len(v) THEN v[i] ELSE 0

RECURSIVE VersionCmpFrom(_, _, _)
VersionCmpFrom(a, b, i) ==
    IF i > Len(a) /\ i > Len(b) THEN 0
    ELSE IF Release(a, i) < Release(b, i) THEN -1
    ELSE IF Release(a, i) > Release(b, i) THEN 1
    ELSE VersionCmpFrom(a, b, i + 1)

VersionCmp(left, right) == ByValue2(LAMBDA a, b : VersionCmpFrom(a, b, 1), left, right)

ParseSpecifier(s) ==
    ByValue(LAMBDA t :
                ByValue(LAMBDA n : [op |-> SubSeq(t, 1, n),
                                    ver |-> ParseVersion(Strip(SubSeq(t, n+1, Len(t))))],
                        PrefixLen(t, OperatorChars)),
            Strip(s))

ParseSpecifierSet(s) ==
    IF Strip(s) = <<>> THEN {}
    ELSE {ParseSpecifier(c) : c \in Range(Split(s, ","))}

(* Variant: every comparison is strict, so >= excludes the floor itself. *)
Contains_strict(spec, v) ==
    ByValue(LAMBDA c :
                CASE spec.op \in {<<">", "=">>, <<">">>} -> c > 0
                  [] spec.op \in {<<"<", "=">>, <<"<">>} -> c < 0
                  [] spec.op = <<"=", "=">> -> c = 0
                  [] spec.op = <<"!", "=">> -> c # 0
                  [] OTHER -> FALSE,
            VersionCmp(v, spec.ver))

Contains(spec, v) ==
    ByValue(LAMBDA c :
                CASE spec.op = <<">", "=">> -> c >= 0
                  [] spec.op = <<"<", "=">> -> c <= 0
                  [] spec.op = <<">">>      -> c > 0
                  [] spec.op = <<"<">>      -> c < 0
                  [] spec.op = <<"=", "=">> -> c = 0
                  [] spec.op = <<"!", "=">> -> c # 0
                  [] spec.op = <<"~", "=">> ->
                         /\ c >= 0
                         /\ \A i \in 1..(Len(spec.ver) - 1) : Release(v, i) = spec.ver[i]
                  [] OTHER -> FALSE,
            VersionCmp(v, spec.ver))

SpecifierSetContains(specs, v) == \A spec \in specs : Contains(spec, v)

(***************************************************************************)
(* PEP 508 requirement strings and PEP 503 project-name normalisation.     *)
(***************************************************************************)
NameChars == Range(LowerCase) \cup Range(UpperCase) \cup Range(Digits) \cup {"-", "_", "."}

Separators == {"-", "_", "."}

ParseRequirement(r) ==
    ByValue(LAMBDA t :
                ByValue(LAMBDA n : [name |-> SubSeq(t, 1, n),
                                    specifier |-> Strip(SubSeq(t, n+1, Len(t)))],
                        PrefixLen(t, NameChars)),
            Strip(r))

(* Variant: separators are normalised to an underscore. *)
RECURSIVE canonicalize_name_underscore(_)
canonicalize_name_underscore(str) ==
    ByValue(LAMBDA s :
                IF Len(s) = 0 THEN <<>>
                ELSE IF s[1] \in Separators
                THEN <<"_">> \o canonicalize_name_underscore(SubSeq(s, 1 + PrefixLen(s, Separators), Len(s)))
                ELSE <<Lower(s[1])>> \o canonicalize_name_underscore(Tail(s)),
            str)

RECURSIVE canonicalize_name(_)
canonicalize_name(str) ==
    ByValue(LAMBDA s :
                IF Len(s) = 0 THEN <<>>
                ELSE IF s[1] \in Separators
                THEN <<"-">> \o canonicalize_name(SubSeq(s, 1 + PrefixLen(s, Separators), Len(s)))
                ELSE <<Lower(s[1])>> \o canonicalize_name(Tail(s)),
            str)

Candidates(r, idx) ==
    ByValue2(LAMBDA project, specs :
                 {c \in idx : c.name = project /\ SpecifierSetContains(specs, c.version)},
             canonicalize_name(ParseRequirement(r).name),
             ParseSpecifierSet(ParseRequirement(r).specifier))

(* Variant: one resolvable requirement is taken to be enough. *)
Resolvable_any(reqs, idx) == \E i \in 1..Len(reqs) : Candidates(reqs[i], idx) # {}

Resolvable(reqs, idx) == \A i \in 1..Len(reqs) : Candidates(reqs[i], idx) # {}

(***************************************************************************)
(* Imports after an editable install (pip install -e .), as the module     *)
(* docstring describes them: the declared mapping is honoured, so a dotted *)
(* name is sent to the directory of its longest mapped prefix extended by  *)
(* the remaining components; a module is importable when that is an        *)
(* existing directory for the name and for all its parents.  (A tool that  *)
(* only puts the repository root on the path, as the legacy develop        *)
(* command does, is outside this model.)                                   *)
(***************************************************************************)
ImportPath(fullname, fnd) == normpath(get_package_dir(fullname, fnd))

Importable(fullname, fnd, existing) ==
    ByValue(LAMBDA parts :
                \A k \in 1..Len(parts) :
                    /\ \E j \in 1..k : Join(SubSeq(parts, 1, j), ".") \in DOMAIN fnd
                    /\ ImportPath(Join(SubSeq(parts, 1, k), "."), fnd) \in existing,
            Split(fullname, "."))

ImportFrom(fullname, fnd, existing, defining) ==
    /\ Importable(fullname, fnd, existing)
    /\ ImportPath(fullname, fnd) \in defining

(***************************************************************************)
(* The environment of one installation: the hosting interpreter, the       *)
(* directories under the repository root (setup.py lies in the root, so    *)
(* the root exists), the modules defining RGL, and what the package index  *)
(* offers.                                                                 *)
(***************************************************************************)
RootDir == <<".">>

ToolsDir == <<"a","p","i","/","l","i","b","/","t","o","o","l","s">>

ToolsModule ==
    <<"h","y","p","e","r","g","r","a","p","h",".","a","p","i",".","l","i","b",".","t","o","o","l","s">>

DirUniverse ==
    { <<"a","p","i">>, <<"a","p","i","/","l","i","b">>, ToolsDir, <<"l","i","b">> }

dirname(d) == normpath(d \o <<"/", ".", ".">>)

FileSystems ==
    { fs \cup {RootDir} : fs \in { t \in SUBSET DirUniverse : \A d \in t : dirname(d) \in t \cup {RootDir} } }

PyVersions == { <<ma, mi>> : ma \in 2..MaxMajor, mi \in 0..MaxMinor }

Projects ==
    { <<"p","y","t","h","o","n","n","e","t">>,
      <<"p","y","t","h","o","n","-","d","o","t","e","n","v">>,
      <<"p","y","d","a","n","t","i","c">> }

Releases == [name : Projects, version : { <<v>> : v \in 1..MaxDepVersion }]

VARIABLES pc, dist, finder, outcome, error, python, dirs, defines, index

vars == <<pc, dist, finder, outcome, error, python, dirs, defines, index>>

env == <<python, dirs, defines, index>>

Init ==
    /\ pc = "script"
    /\ dist = <<>>
    /\ finder = <<>>
    /\ outcome = "none"
    /\ error = "none"
    /\ python \in PyVersions
    /\ dirs \in FileSystems
    /\ defines \in SUBSET (dirs \cap {ToolsDir})
    /\ index \in SUBSET Releases

Fail(reason) ==
    /\ pc' = "done"
    /\ outcome' = "failure"
    /\ error' = reason

(* Variant: the registration is run a second time. *)
Setup_twice ==
    /\ pc = "script"
    /\ dist' = Append(dist, SetupKeywords)
    /\ pc' = IF Len(dist) = 0 THEN "script" ELSE "egg_info"
    /\ UNCHANGED <<finder, outcome, error, env>>

(* setup(...): the keywords are handed to the install tool. *)
Setup ==
    /\ pc = "script"
    /\ dist' = Append(dist, SetupKeywords)
    /\ pc' = "egg_info"
    /\ UNCHANGED <<finder, outcome, error, env>>

(* packages / package_dir: every declared package needs its directory. *)
CheckPackages ==
    /\ pc = "egg_info"
    /\ LET d == dist[Len(dist)]
       IN  IF \A i \in 1..Len(d.packages) : check_package(d.packages[i], d.package_dir, dirs)
           THEN pc' = "requires_python" /\ UNCHANGED <<outcome, error>>
           ELSE Fail("package_dir")
    /\ UNCHANGED <<dist, finder, env>>

(* python_requires: the hosting interpreter must be in the specifier set. *)
CheckRequiresPython ==
    /\ pc = "requires_python"
    /\ IF SpecifierSetContains(ParseSpecifierSet(dist[Len(dist)].python_requires), python)
       THEN pc' = "resolve" /\ UNCHANGED <<outcome, error>>
       ELSE Fail("python_requires")
    /\ UNCHANGED <<dist, finder, env>>

(* install_requires: every requirement needs a candidate in the index. *)
ResolveDependencies ==
    /\ pc = "resolve"
    /\ IF Resolvable(dist[Len(dist)].install_requires, index)
       THEN pc' = "install" /\ UNCHANGED <<outcome, error>>
       ELSE Fail("install_requires")
    /\ UNCHANGED <<dist, finder, env>>

(* The editable mapping of the declared packages is published. *)
Install ==
    /\ pc = "install"
    /\ LET d == dist[Len(dist)]
       IN  finder' = [p \in Range(d.packages) |-> normpath(get_package_dir(p, d.package_dir))]
    /\ pc' = "done"
    /\ outcome' = "success"
    /\ UNCHANGED <<dist, error, env>>

Next ==
    \/ Setup
    \/ CheckPackages
    \/ CheckRequiresPython
    \/ ResolveDependencies
    \/ Install

Spec == Init /\ [][Next]_vars

(* The script runs synchronously to its end: a step that can be taken is taken. *)
FairSpec == Spec /\ WF_vars(Next)

(***************************************************************************)
(* Vocabulary of the properties: the names and locations the               *)
(* specification speaks of, written out independently of the keywords.     *)
(***************************************************************************)
NsHypergraph == <<"h","y","p","e","r","g","r","a","p","h">>

NsApi == <<"h","y","p","e","r","g","r","a","p","h",".","a","p","i">>

NsApiLib == <<"h","y","p","e","r","g","r","a","p","h",".","a","p","i",".","l","i","b">>

DeclaredNamespaces == {NsHypergraph, NsApi, NsApiLib}

ApiDir == <<"a","p","i">>

ApiLibDir == <<"a","p","i","/","l","i","b">>

DeclaredDirsPresent == {RootDir, ApiDir, ApiLibDir} \subseteq dirs

DependencyNames ==
    { <<"p","y","t","h","o","n","n","e","t">>,
      <<"p","y","t","h","o","n","-","d","o","t","e","n","v">>,
      <<"p","y","d","a","n","t","i","c">> }

EveryDependencyOffered == \A n \in DependencyNames : \E r \in index : r.name = n

AtLeast37 == python[1] > 3 \/ (python[1] = 3 /\ python[2] >= 7)

Registered == Len(dist) > 0

Terminal == pc = "done"

PackagesChecked == pc \in {"requires_python", "resolve", "install"} \/ (Terminal /\ error # "package_dir")

PythonChecked ==
    pc \in {"resolve", "install"} \/ (Terminal /\ error \notin {"package_dir", "python_requires"})

DependenciesChecked ==
    pc = "install" \/ (Terminal /\ error \notin {"package_dir", "python_requires", "install_requires"})

(***************************************************************************)
(* C1: the registered configuration declares exactly the namespaces        *)
(* hypergraph, hypergraph.api and hypergraph.api.lib, the keys of the      *)
(* directory mapping are exactly the declared packages, and the mapping    *)
(* sends them to '.', 'api' and 'api/lib'.                                 *)
(***************************************************************************)
C1_DeclaredMapping ==
    \A i \in 1..Len(dist) :
        LET d == dist[i]
        IN  /\ Len(d.packages) = 3
            /\ Range(d.packages) = DeclaredNamespaces
            /\ DOMAIN d.package_dir = Range(d.packages)
            /\ d.package_dir[NsHypergraph] = RootDir
            /\ d.package_dir[NsApi] = ApiDir
            /\ d.package_dir[NsApiLib] = ApiLibDir

C1_Witness == Registered /\ pc = "egg_info"

(***************************************************************************)
(* C2: once installation has succeeded all three declared namespaces are   *)
(* importable; before that, and after a failure, none of them is.          *)
(***************************************************************************)
C2_ImportableIffSuccess ==
    /\ outcome = "success" => \A n \in DeclaredNamespaces : Importable(n, finder, dirs)
    /\ outcome # "success" => \A n \in DeclaredNamespaces : ~Importable(n, finder, dirs)

C2_Witness == outcome = "success" /\ \A n \in DeclaredNamespaces : Importable(n, finder, dirs)

(***************************************************************************)
(* C3: after a successful installation hypergraph.api.lib.tools resolves   *)
(* to api/lib/tools under the repository root, and importing RGL from it   *)
(* works whenever api/lib/tools exists and defines RGL.                    *)
(***************************************************************************)
C3_ToolsResolve ==
    outcome = "success" =>
        /\ ImportPath(ToolsModule, finder) = ToolsDir
        /\ (ToolsDir \in dirs /\ ToolsDir \in defines)
               => ImportFrom(ToolsModule, finder, dirs, defines)

C3_Witness ==
    /\ outcome = "success"
    /\ ToolsDir \in defines
    /\ ImportFrom(ToolsModule, finder, dirs, defines)

(***************************************************************************)
(* C4, as stated: whenever the repository root, api and api/lib are        *)
(* present, a finished installation has succeeded.                         *)
(***************************************************************************)
C4_DirsSufficeForSuccess == (Terminal /\ DeclaredDirsPresent) => outcome = "success"

(***************************************************************************)
(* C4, amended: whenever the three directories are present, the hosting    *)
(* interpreter is at least 3.7 and the index offers every listed           *)
(* dependency, a finished installation has succeeded.                      *)
(***************************************************************************)
C4_SuccessGivenDirsPythonDeps ==
    (Terminal /\ DeclaredDirsPresent /\ AtLeast37 /\ EveryDependencyOffered)
        => outcome = "success"

C4_Witness ==
    Terminal /\ DeclaredDirsPresent /\ AtLeast37 /\ EveryDependencyOffered /\ outcome = "success"

(***************************************************************************)
(* C5: a finished installation has failed whenever a declared source       *)
(* directory is absent or a listed dependency is not offered by the index. *)
(***************************************************************************)
C5_FailureOnMissingDirOrDep ==
    (Terminal /\ (~DeclaredDirsPresent \/ ~EveryDependencyOffered)) => outcome = "failure"

C5_Witness ==
    /\ Terminal
    /\ DeclaredDirsPresent
    /\ AtLeast37
    /\ ~EveryDependencyOffered
    /\ index # {}
    /\ error = "install_requires"

(***************************************************************************)
(* C6: the version constraint admits the hosting interpreter if and only   *)
(* if its version is at least 3.7.                                         *)
(***************************************************************************)
C6_PythonFloor == PackagesChecked /\ pc # "requires_python" => (error # "python_requires" <=> AtLeast37)

C6_Witness == pc = "resolve" /\ python = <<3, 10>>

(***************************************************************************)
(* C7: exactly three distinct dependencies are declared (pythonnet,        *)
(* python-dotenv, pydantic), none with a version constraint, and an index  *)
(* offering some version of each satisfies the whole list.                 *)
(***************************************************************************)
C7_DependenciesSatisfiable ==
    /\ \A i \in 1..Len(dist) :
           LET reqs == dist[i].install_requires
           IN  /\ Len(reqs) = 3
               /\ {canonicalize_name(ParseRequirement(reqs[k]).name) : k \in 1..Len(reqs)}
                      = DependencyNames
               /\ \A k \in 1..Len(reqs) : ParseRequirement(reqs[k]).specifier = <<>>
    /\ (PythonChecked /\ pc # "resolve" /\ EveryDependencyOffered) => error # "install_requires"

C7_Witness ==
    /\ pc = "install"
    /\ EveryDependencyOffered
    /\ Cardinality(index) = 3

(***************************************************************************)
(* C8: the setup registration is taken exactly once, the registered        *)
(* configuration is never modified afterwards, the run reaches a terminal  *)
(* outcome (success or failure), and no step follows the terminal outcome. *)
(***************************************************************************)
C8_RunsOnceToTheEnd ==
    /\ [](Len(dist) <= 1)
    /\ [](pc # "script" => Len(dist) = 1 /\ dist[1] = SetupKeywords)
    /\ [][Registered => dist' = dist]_vars
    /\ [][~Terminal]_vars
    /\ <>(Terminal /\ outcome \in {"success", "failure"})

C8_Witness == Terminal /\ Len(dist) = 1 /\ outcome \in {"success", "failure"}

(***************************************************************************)
(* C9: every declared namespace with a dot has its parent declared, its    *)
(* directory is the parent's directory joined with its last component, and *)
(* distinct declared namespaces have distinct directories.                 *)
(***************************************************************************)
C9_NestingFollowsNamespaces ==
    \A i \in 1..Len(dist) :
        LET d == dist[i]
            declared == Range(d.packages)
            location(n) == normpath(d.package_dir[n])
        IN  /\ \A n \in declared :
                   LET parts == Split(n, ".")
                       parent == Join(SubSeq(parts, 1, Len(parts) - 1), ".")
                   IN  Len(parts) > 1 =>
                           /\ parent \in declared
                           /\ location(n)
                                  = normpath(PathJoin(<<d.package_dir[parent], parts[Len(parts)]>>))
            /\ \A m, n \in declared : m # n => location(m) # location(n)

C9_Witness == Registered /\ Cardinality(Range(dist[1].packages)) = 3

====
